---- MODULE Spec2Model ----
(***************************************************************************)
(* Model of the SignalR client of dataFeed/pkg/signalr (second, resilient  *)
(* version of the package: src/unnamed/part_010, lines 302-1198).          *)
(*                                                                         *)
(* Goroutines of the program and how they appear here:                     *)
(*   - the application goroutine calls Connect and Close (appPc);          *)
(*   - the token-refresh goroutine calls UpdateToken at any time;          *)
(*   - every successful Connect starts one monitorConnection goroutine     *)
(*     (mon counts the monitors at each place of their code), one          *)
(*     heartbeat goroutine and one default-subscription goroutine;         *)
(*   - the heartbeat starts one goroutine per ping;                        *)
(*   - handleConnected starts a reapplySubscriptions goroutine;            *)
(*   - the transport library calls the receiver (Receive, HandleError,     *)
(*     HandleConnectionEvent) on its own goroutine (rx).                   *)
(* A Go panic in any goroutine ends the process: panicked # "no" disables  *)
(* every action.                                                           *)
(***************************************************************************)
EXTENDS Integers, Sequences, FiniteSets, TLC

\* ------------------------------------------------------------------ bounds
MaxHandles == 2            \* transport handles opened (successful opens) per run
MaxReconnectAttempts == 2  \* maxReconnectAttempts (20 by default, configurable)
MessageBufferSize == 1     \* capacity of messagesChan (100 by default, configurable)
MaxPings == 1              \* heartbeat pings waiting for their result
MaxReplays == 1            \* reapplySubscriptions goroutines started and not yet run
MaxFields == 3             \* fields of a tilde-delimited string given to the processor
MaxRetries == 2            \* websocket.Client.maxRetries (10 in NewClient)
MaxWsMonitors == 2         \* monitorConnection goroutines of a websocket.Client per run
WsChanCap == 1             \* capacity of sendChan and of receiveChan (100 in NewClient)

\* --------------------------------------------------------------- constants
ReconnectChanCap == 1      \* make(chan struct{}, 1)
MaxDefaultAttempts == 3    \* maxRetries of SubscribeToDefaultEvents

Tokens == {"t1", "t2"}
Statuses == {"Disconnected", "Connecting", "Connected", "Reconnecting"}
NoHandle == 0
HandleIds == 1..MaxHandles

\* the goroutines that run Connect: the application and the monitors
Callers == {"app", "monitor"}
\* where a monitorConnection goroutine can be; the monitors are alike, so the
\* state keeps how many of them are at each place
MonitorPcs == {"wait", "attempt", "backoff", "connect", "open", "started", "failed", "exit"}

VARIABLES
  connStatus,         \* Client.connStatus
  connError,          \* Client.connError: "nil" or the kind of the recorded error
  reconnectChan,      \* number of signals buffered in Client.reconnectChan
  reconnectAttempts,  \* Client.reconnectAttempts
  token,              \* Client.token
  client,             \* Client.client: a handle id, or NoHandle for nil
  handles,            \* transport handles: id -> "none", "live" or "stopped"
  cancelled,          \* Client.ctx is cancelled
  chanClosed,         \* messagesChan has been closed
  panicked,           \* "no", or the runtime panic that ended the process
  appPc,              \* the application goroutine: "idle", or inside Connect
  connectResult,      \* what the application's last Connect() returned
  mon,                \* monitorConnection goroutines: place -> how many
  heartbeats,         \* running heartbeat goroutines
  pings,              \* heartbeat pings sent and waiting for their result
  replays,            \* reapplySubscriptions goroutines started and not yet run
  subscriptions,      \* Client.subscriptions: method -> stored arguments
  subMuDead,          \* subscriptionsMu is held for ever (self-deadlocked replay)
  defaultSubs,        \* default-subscription goroutines: attempt -> how many
  messagesChan,       \* buffered content of Client.messagesChan
  delayCfg,           \* Client.baseReconnectDelay, maxReconnectDelay (milliseconds)
  handlers,           \* MessageReceiver.handlers: lower-case name -> handler
  rx,                 \* the transport's callback goroutine: the call, its steps to come
  proc,               \* MessageProcessor: the data being decoded, the strategy, the outcome
  ws,                 \* websocket.Client: its fields and its goroutines
  hist                \* history: what has happened, for stating the properties

connVars == <<connStatus, connError, reconnectChan, reconnectAttempts>>
handleVars == <<token, client, handles>>
endVars == <<cancelled, chanClosed, panicked>>
callerVars == <<appPc, connectResult, mon>>
beatVars == <<heartbeats, pings>>
subVars == <<replays, subscriptions, subMuDead, defaultSubs>>
rxVars == <<messagesChan, handlers, rx>>
vars == <<connVars, handleVars, endVars, callerVars, beatVars, subVars, rxVars, delayCfg,
          proc, ws, hist>>

\* ----------------------------------------------------------------- helpers
\* a string of the processor: a text under the encodings enc, outermost first
Plain(text) == [enc |-> <<>>, v |-> text]
NoOutcome == [kind |-> "none", v |-> <<>>]
\* the processor has been given nothing to decode
NoProc == [pc |-> "idle", data |-> Plain(<<>>), out |-> NoOutcome]

\* websocket.NewClient: reconnectWait 2 s, no connection, no goroutine. The
\* monitors are numbered in the order Connect starts them; fails counts the
\* failed reconnect attempts since the last connect that succeeded, lateDial
\* says that a goroutine has dialled after Close returned.
WsMonitorIds == 1..MaxWsMonitors
InitialReconnectWait == 2000
MaxReconnectWait == 60000
NewWsClient ==
  [isConnected |-> FALSE, conn |-> "nil", cancelled |-> FALSE, closed |-> FALSE,
   sendChan |-> 0, receiveChan |-> 0, reconnectWait |-> InitialReconnectWait,
   mons |-> [i \in WsMonitorIds |-> [pc |-> "none", retries |-> 0]],
   reading |-> 0, processing |-> 0, writers |-> 0, appPc |-> "idle",
   panicked |-> "no", fails |-> 0, lateDial |-> FALSE]

DefaultMethod == "SubscribeToMarketStatusUpdatedEvent"
DefaultArgs == <<"DSE">>

\* hist.delay is the backoff of the latest automatic attempt since the state was
\* last set to Connected
\* hist.subscribe is what the application's latest Subscribe did: "not connected"
\* for the error it returned, "sent" for the nil it returned with the goroutine
\* of the Send started. hist.ctxDone: handleDisconnected has set the state to
\* Disconnected and found the context cancelled.
NoHist == [hbFailed |-> FALSE, tokenForced |-> FALSE, handshake |-> "none",
           gaveUp |-> FALSE, delay |-> 0, subscribe |-> "none", ctxDone |-> FALSE]

\* NewClient: baseReconnectDelay 2 s, maxReconnectDelay 2 min
DefaultDelays == [base |-> 2000, max |-> 120000]
\* the delays NewClientWithConfig is given in the runs that vary them: a maximum
\* the second attempt passes, and one equal to the base
DelayConfigs == {DefaultDelays, [base |-> 2000, max |-> 2500], [base |-> 4000, max |-> 4000]}

\* a backoff that is not cut at the maximum
BackoffUncapped(base, max, attempt) == (base * 3 * (attempt - 1)) \div 2

\* attemptReconnect: time.Duration(float64(base) * (1.5 * float64(attempt-1))),
\* cut at maxReconnectDelay. The delays are whole even milliseconds, for which
\* the product is exact.
BackoffDelay(base, max, attempt) ==
  LET backoff == (base * 3 * (attempt - 1)) \div 2 IN
  IF backoff > max THEN max ELSE backoff

\* A heartbeat failure is outstanding only while the client still shows Connected.
Settle(h) == [h EXCEPT !.hbFailed = @ /\ connStatus' = "Connected" /\ ~cancelled']

Running == panicked = "no"

\* a post that is queued behind the pending signal
SignalReconnectQueued(ch) == ch + 1

\* select { case c.reconnectChan <- struct{}{}: default: }
SignalReconnect(ch) == IF ch < ReconnectChanCap THEN ch + 1 ELSE ch

\* a Connect that returns at once only while another Connect is in progress
ConnectIsNoopOnlyConnecting(status) == status = "Connecting"

\* an entry test that lets a Connect through while another is connecting
ConnectIsNoopOnlyConnected(status) == status = "Connected"

\* Connect's entry test: already connecting or connected
ConnectIsNoop(status) == status \in {"Connecting", "Connected"}

\* handleConnected: wasReconnecting
WasReconnecting(status) == status = "Reconnecting"

\* a test that never finds the client reconnected
NeverAlreadyReconnected(status) == FALSE

\* attemptReconnect: "Check if we've already reconnected somehow"
AlreadyReconnected(status) == status = "Connected"

\* a test that lets one attempt more through
BudgetExceeded(attempts) == attempts > MaxReconnectAttempts

\* a budget test that leaves out the attempts other monitors have under way
BudgetExhaustedStale(attempts) ==
  attempts - (mon["backoff"] + mon["connect"] + mon["open"] + mon["started"])
    >= MaxReconnectAttempts

\* attemptReconnect: "Check if we've exceeded the maximum number of attempts"
BudgetExhausted(attempts) == attempts >= MaxReconnectAttempts

\* a reconnect for every UpdateToken made while connected
NeedsReconnectWhenConnected(status, oldToken, newToken) == status = "Connected"

\* UpdateToken: needsReconnect := c.isConnected() && oldToken != newToken
NeedsReconnect(status, oldToken, newToken) ==
  status = "Connected" /\ oldToken # newToken

NumHandles == Cardinality({h \in HandleIds : handles[h] # "none"})
LiveHandles == {h \in HandleIds : handles[h] = "live"}
RECURSIVE SumOver(_, _)
SumOver(f, S) == IF S = {} THEN 0
                 ELSE LET x == CHOOSE y \in S : TRUE IN f[x] + SumOver(f, S \ {x})
NumMonitors == SumOver(mon, MonitorPcs)

\* handle.Stop(): the handle delivers no further server call
Stopped(hs, h) == IF h = NoHandle THEN hs ELSE [hs EXCEPT ![h] = "stopped"]

\* one monitor moves from one place to another
Moved(from, to) == [mon EXCEPT ![from] = @ - 1, ![to] = @ + 1]

\* the caller is at the place `at` of Connect
CallerAt(k, at) == IF k = "app" THEN appPc = at ELSE mon[at] > 0

\* the caller goes on inside Connect
Goes(k, from, to) ==
  IF k = "app"
  THEN appPc' = to /\ UNCHANGED <<connectResult, mon>>
  ELSE mon' = Moved(from, to) /\ UNCHANGED <<appPc, connectResult>>

\* a Connect that tries to open the transport again instead of returning an error
ReturnsOrRetries(k, from, result) ==
  IF result = "err"
  THEN Goes(k, from, "open")
  ELSE IF k = "app"
       THEN appPc' = "idle" /\ connectResult' = result /\ UNCHANGED mon
       ELSE mon' = Moved(from, "wait") /\ UNCHANGED <<appPc, connectResult>>

\* Connect returns: the application has its result; attemptReconnect goes back to
\* the monitor loop, after posting a retry when the result is an error
Returns(k, from, result) ==
  IF k = "app"
  THEN appPc' = "idle" /\ connectResult' = result /\ UNCHANGED mon
  ELSE /\ mon' = Moved(from, IF result = "nil" THEN "wait" ELSE "failed")
       /\ UNCHANGED <<appPc, connectResult>>

\* ---------------------------------------------------------------- NewClient
NewClientState(delays) ==
  /\ delayCfg = delays
  /\ connStatus = "Disconnected"
  /\ connError = "nil"
  /\ reconnectChan = 0
  /\ reconnectAttempts = 0
  /\ token = "t1"
  /\ client = NoHandle
  /\ handles = [h \in HandleIds |-> "none"]
  /\ cancelled = FALSE
  /\ chanClosed = FALSE
  /\ panicked = "no"
  /\ appPc = "idle"
  /\ connectResult = "none"
  /\ mon = [p \in MonitorPcs |-> 0]
  /\ heartbeats = 0
  /\ pings = 0
  /\ replays = 0
  /\ subscriptions = [x \in {} |-> <<>>]
  /\ subMuDead = FALSE
  /\ defaultSubs = [a \in 1..MaxDefaultAttempts |-> 0]
  /\ messagesChan = <<>>
  /\ handlers = [x \in {} |-> "none"]
  /\ rx = [call |-> "none", pending |-> <<>>, done |-> <<>>]
  /\ hist = NoHist

NewClientWith(delays) == NewClientState(delays) /\ proc = NoProc /\ ws = NewWsClient

Init == NewClientWith(DefaultDelays)

\* ------------------------------------------------------------------ Connect
\* Connect, up to the release of connMu: the no-op return, or state -> Connecting
ConnectBegin(k) ==
  /\ Running
  /\ UNCHANGED <<delayCfg, proc, ws>>
  /\ CallerAt(k, IF k = "app" THEN "idle" ELSE "connect")
  /\ IF ConnectIsNoop(connStatus)
     THEN /\ Returns(k, "connect", "nil")
          /\ UNCHANGED connStatus
     ELSE /\ connStatus' = "Connecting"
          /\ IF k = "app"
             THEN appPc' = "open" /\ connectResult' = "none" /\ UNCHANGED mon
             ELSE Goes(k, "connect", "open")
  /\ UNCHANGED cancelled
  /\ hist' = Settle(IF k = "app"
                    THEN [hist EXCEPT !.gaveUp = FALSE]
                    ELSE hist)
  /\ UNCHANGED <<connError, reconnectChan, reconnectAttempts, handleVars, chanClosed,
                 panicked, beatVars, subVars, rxVars>>

\* an error handler that records the error and leaves the state at Connecting
HandleConnectionErrorKeepsState ==
  /\ connStatus' = connStatus
  /\ connError' = "connect"

\* handleConnectionError
HandleConnectionError ==
  /\ connStatus' = "Disconnected"
  /\ connError' = "connect"

\* NewHTTPConnection fails: handleConnectionError, return the error
ConnectOpenFails(k) ==
  /\ Running
  /\ UNCHANGED <<delayCfg, proc, ws>>
  /\ CallerAt(k, "open")
  /\ HandleConnectionError
  /\ Returns(k, "open", "err")
  /\ UNCHANGED cancelled
  /\ hist' = Settle(hist)
  /\ UNCHANGED <<reconnectChan, reconnectAttempts, handleVars, chanClosed, panicked,
                 beatVars, subVars, rxVars>>

\* signalr.NewClient fails: c.client is assigned the nil it returned
ConnectNewClientFails(k) ==
  /\ Running
  /\ UNCHANGED <<delayCfg, proc, ws>>
  /\ CallerAt(k, "open")
  /\ ~cancelled
  /\ HandleConnectionError
  /\ client' = NoHandle
  /\ Returns(k, "open", "err")
  /\ UNCHANGED cancelled
  /\ hist' = Settle(hist)
  /\ UNCHANGED <<reconnectChan, reconnectAttempts, token, handles, chanClosed, panicked,
                 beatVars, subVars, rxVars>>

\* the token the header function puts into the handshake request: c.token, read
\* when the request is made
HandshakeToken == token

\* NewHTTPConnection and NewClient succeed, c.client.Start()
ConnectOpens(k) ==
  /\ Running
  /\ UNCHANGED <<delayCfg, proc, ws>>
  /\ CallerAt(k, "open")
  /\ ~cancelled
  /\ NumHandles < MaxHandles
  /\ LET h == NumHandles + 1 IN
       /\ handles' = [handles EXCEPT ![h] = "live"]
       /\ client' = h
  /\ Goes(k, "open", "started")
  /\ UNCHANGED <<connStatus, cancelled>>
  /\ hist' = Settle([hist EXCEPT !.tokenForced = FALSE, !.handshake = HandshakeToken])
  /\ UNCHANGED <<connError, reconnectChan, reconnectAttempts, token, chanClosed, panicked,
                 beatVars, subVars, rxVars>>

\* a handleConnected that leaves the retry count as it is
HandleConnectedKeepsAttempts ==
  /\ WasReconnecting(connStatus) /\ ~subMuDead => replays < MaxReplays
  /\ connStatus' = "Connected"
  /\ reconnectAttempts' = reconnectAttempts
  /\ connError' = "nil"
  /\ replays' = IF WasReconnecting(connStatus) /\ ~subMuDead THEN replays + 1 ELSE replays

\* handleConnected: state -> Connected, the retry count is reset, and a replay of the
\* subscriptions is started if the state was Reconnecting. A replay started when
\* subscriptionsMu is dead blocks in RLock for ever and is not counted.
HandleConnected ==
  /\ WasReconnecting(connStatus) /\ ~subMuDead => replays < MaxReplays
  /\ connStatus' = "Connected"
  /\ reconnectAttempts' = 0
  /\ connError' = "nil"
  /\ replays' = IF WasReconnecting(connStatus) /\ ~subMuDead THEN replays + 1 ELSE replays

\* Connect after c.client.Start(): handleConnected, go monitorConnection,
\* startHeartbeat, SubscribeToDefaultEvents, return nil
ConnectStarted(k) ==
  /\ Running
  /\ UNCHANGED <<delayCfg, proc, ws>>
  /\ CallerAt(k, "started")
  /\ HandleConnected
  /\ IF k = "app"
     THEN /\ appPc' = "idle"
          /\ connectResult' = "nil"
          /\ mon' = [mon EXCEPT !["wait"] = @ + 1]
     ELSE /\ mon' = [mon EXCEPT !["started"] = @ - 1, !["wait"] = @ + 2]
          /\ UNCHANGED <<appPc, connectResult>>
  /\ heartbeats' = heartbeats + 1
  /\ defaultSubs' = [defaultSubs EXCEPT ![1] = @ + 1]
  /\ UNCHANGED cancelled
  /\ hist' = Settle(IF k = "app" THEN [hist EXCEPT !.gaveUp = FALSE, !.delay = 0]
                    ELSE [hist EXCEPT !.delay = 0])
  /\ UNCHANGED <<reconnectChan, handleVars, chanClosed, panicked, pings,
                 subscriptions, subMuDead, rxVars>>

\* --------------------------------------------------------- monitorConnection
\* select: case <-c.ctx.Done(): return
MonitorStops ==
  /\ Running
  /\ UNCHANGED <<delayCfg, proc, ws>>
  /\ mon["wait"] > 0
  /\ cancelled
  /\ mon' = Moved("wait", "exit")
  /\ UNCHANGED <<connVars, handleVars, endVars, appPc, connectResult, beatVars, subVars,
                 rxVars, hist>>

\* select: case <-c.reconnectChan: c.attemptReconnect()
MonitorTakesSignal ==
  /\ Running
  /\ UNCHANGED <<delayCfg, proc, ws>>
  /\ mon["wait"] > 0
  /\ reconnectChan > 0
  /\ reconnectChan' = reconnectChan - 1
  /\ mon' = Moved("wait", "attempt")
  /\ UNCHANGED <<connStatus, connError, reconnectAttempts, handleVars, endVars, appPc,
                 connectResult, beatVars, subVars, rxVars, hist>>

AttemptInFlight ==
  \/ appPc # "idle"
  \/ \E p \in {"backoff", "connect", "open", "started"} : mon[p] > 0

\* attemptReconnect under connMu: ignore the signal, give up, or count the attempt
\* and set state -> Reconnecting
AttemptReconnectCheck ==
  /\ Running
  /\ UNCHANGED <<delayCfg, proc, ws>>
  /\ mon["attempt"] > 0
  /\ IF AlreadyReconnected(connStatus)
     THEN /\ mon' = Moved("attempt", "wait")
          /\ UNCHANGED <<connStatus, reconnectAttempts, hist>>
     ELSE IF BudgetExhausted(reconnectAttempts)
     THEN /\ mon' = Moved("attempt", "wait")
          /\ hist' = [hist EXCEPT !.gaveUp = @ \/ ~AttemptInFlight]
          /\ UNCHANGED <<connStatus, reconnectAttempts>>
     ELSE /\ reconnectAttempts' = reconnectAttempts + 1
          /\ connStatus' = "Reconnecting"
          /\ mon' = Moved("attempt", "backoff")
          /\ hist' = [hist EXCEPT !.hbFailed = FALSE,
                                  !.delay = BackoffDelay(delayCfg.base, delayCfg.max,
                                                         reconnectAttempts + 1)]
  /\ UNCHANGED <<connError, reconnectChan, handleVars, endVars, appPc, connectResult,
                 beatVars, subVars, rxVars>>

\* attemptReconnect: the backoff timer fires, c.client = nil (the old handle is
\* dropped without Stop), then Connect is called
BackoffElapses ==
  /\ Running
  /\ UNCHANGED <<delayCfg, proc, ws>>
  /\ mon["backoff"] > 0
  /\ client' = NoHandle
  /\ mon' = Moved("backoff", "connect")
  /\ UNCHANGED <<connVars, token, handles, endVars, appPc, connectResult, beatVars,
                 subVars, rxVars, hist>>

\* attemptReconnect: case <-c.ctx.Done(): return
BackoffCancelled ==
  /\ Running
  /\ UNCHANGED <<delayCfg, proc, ws>>
  /\ mon["backoff"] > 0
  /\ cancelled
  /\ mon' = Moved("backoff", "wait")
  /\ UNCHANGED <<connVars, handleVars, endVars, appPc, connectResult, beatVars, subVars,
                 rxVars, hist>>

\* attemptReconnect after Connect returned an error: "Schedule another attempt"
MonitorPostsRetry ==
  /\ Running
  /\ UNCHANGED <<delayCfg, proc, ws>>
  /\ mon["failed"] > 0
  /\ reconnectChan' = SignalReconnect(reconnectChan)
  /\ mon' = Moved("failed", "wait")
  /\ UNCHANGED <<connStatus, connError, reconnectAttempts, handleVars, endVars, appPc,
                 connectResult, beatVars, subVars, rxVars, hist>>

\* ------------------------------------------------------------ startHeartbeat
\* case <-ticker.C with the state Connected: the ping goroutine calls
\* c.client.Send("ping") (a nil c.client panics) and waits for the result.
\* A tick in any other state is the "continue".
HeartbeatTick ==
  /\ Running
  /\ UNCHANGED <<delayCfg, proc, ws>>
  /\ heartbeats > 0
  /\ connStatus = "Connected"
  /\ IF client = NoHandle
     THEN /\ panicked' = "nil dereference"
          /\ UNCHANGED pings
     ELSE /\ pings < MaxPings
          /\ pings' = pings + 1
          /\ UNCHANGED panicked
  /\ UNCHANGED <<connVars, handleVars, cancelled, chanClosed, callerVars, heartbeats,
                 subVars, rxVars, hist>>

\* case <-c.ctx.Done(): return
HeartbeatStops ==
  /\ Running
  /\ UNCHANGED <<delayCfg, proc, ws>>
  /\ heartbeats > 0
  /\ cancelled
  /\ heartbeats' = heartbeats - 1
  /\ UNCHANGED <<connVars, handleVars, endVars, callerVars, pings, subVars, rxVars, hist>>

\* case result := <-resultChan with result == nil
PingSucceeds ==
  /\ Running
  /\ UNCHANGED <<delayCfg, proc, ws>>
  /\ pings > 0
  /\ LiveHandles # {}
  /\ pings' = pings - 1
  /\ UNCHANGED <<connVars, handleVars, endVars, callerVars, heartbeats, subVars, rxVars,
                 hist>>

\* a non-nil result, or case <-time.After(10 * time.Second): post a reconnect signal
PingFails ==
  /\ Running
  /\ UNCHANGED <<delayCfg, proc, ws>>
  /\ pings > 0
  /\ pings' = pings - 1
  /\ reconnectChan' = SignalReconnect(reconnectChan)
  /\ UNCHANGED <<connStatus, cancelled>>
  /\ hist' = Settle([hist EXCEPT !.hbFailed = TRUE])
  /\ UNCHANGED <<connError, reconnectAttempts, handleVars, chanClosed, panicked,
                 callerVars, heartbeats, subVars, rxVars>>

\* --------------------------------------------------------------- UpdateToken
\* UpdateToken: the token is replaced; when a reconnect is needed the handle is
\* stopped, c.client = nil and a reconnect signal is posted
UpdateToken(newToken) ==
  /\ Running
  /\ UNCHANGED <<delayCfg, proc, ws>>
  /\ token' = newToken
  /\ IF NeedsReconnect(connStatus, token, newToken)
     THEN /\ handles' = Stopped(handles, client)
          /\ client' = NoHandle
          /\ reconnectChan' = SignalReconnect(reconnectChan)
          /\ hist' = [hist EXCEPT !.tokenForced = TRUE]
     ELSE UNCHANGED <<handles, client, reconnectChan, hist>>
  /\ UNCHANGED <<connStatus, connError, reconnectAttempts, endVars, callerVars, beatVars,
                 subVars, rxVars>>

\* --------------------------------------------------------------------- Close
\* Close: cancel the context (which also ends every transport client created with
\* it), state -> Disconnected, stop and drop the handle, close(c.messagesChan);
\* closing the closed channel panics
Close ==
  /\ Running
  /\ UNCHANGED <<delayCfg, proc, ws>>
  /\ appPc = "idle"
  /\ cancelled' = TRUE
  /\ connStatus' = "Disconnected"
  /\ handles' = [h \in HandleIds |-> IF handles[h] = "live" THEN "stopped" ELSE handles[h]]
  /\ client' = NoHandle
  /\ chanClosed' = TRUE
  /\ panicked' = IF chanClosed THEN "close of closed channel" ELSE panicked
  /\ hist' = [NoHist EXCEPT !.handshake = hist.handshake, !.delay = hist.delay]
  /\ UNCHANGED <<connError, reconnectChan, reconnectAttempts, token, callerVars, beatVars,
                 subVars, rxVars>>

\* ------------------------------------------------------------- subscriptions
\* a store that adds the arguments to those a method already has
StoreAppends(subs, method, args) ==
  [x \in DOMAIN subs \cup {method} |->
     IF x # method THEN subs[x]
     ELSE IF x \in DOMAIN subs THEN subs[x] \o args ELSE args]

\* storeSubscription: c.subscriptions[method] = argsCopy
StoreSubscription(subs, method, args) ==
  [x \in DOMAIN subs \cup {method} |-> IF x = method THEN args ELSE subs[x]]

\* Subscribe in the state Connected: the subscription is stored, then a goroutine
\* calls c.client.Send, which panics when c.client is nil. When subscriptionsMu
\* is dead storeSubscription never returns.
SubscribeConnected(method, args) ==
  IF subMuDead
  THEN UNCHANGED <<subscriptions, panicked>>
  ELSE /\ subscriptions' = StoreSubscription(subscriptions, method, args)
       /\ panicked' = IF client = NoHandle THEN "nil dereference" ELSE panicked

\* the subscriptions the application makes
SubscribeMethods == {"SubscribeToSharePriceUpdatedEvent"}
SubscribeArgs == {<<"a">>, <<"b">>}

\* a Subscribe that is refused only in the state Disconnected
NotConnectedOnlyDisconnected(status) == status = "Disconnected"

\* Subscribe: c.Status() != ConnectionStatusConnected
NotConnected(status) == status # "Connected"

\* Subscribe called by the application: an error unless the state is Connected
Subscribe(method, args) ==
  /\ Running
  /\ UNCHANGED <<delayCfg, proc, ws>>
  /\ IF NotConnected(connStatus)
     THEN /\ UNCHANGED <<subscriptions, panicked>>
          /\ hist' = [hist EXCEPT !.subscribe = "not connected"]
     ELSE /\ SubscribeConnected(method, args)
          /\ hist' = [hist EXCEPT !.subscribe = IF subMuDead THEN @ ELSE "sent"]
  /\ UNCHANGED <<connVars, handleVars, cancelled, chanClosed, callerVars, beatVars,
                 replays, subMuDead, defaultSubs, rxVars>>

\* one round of the goroutine of SubscribeToDefaultEvents: not Connected, sleep and
\* try again (three rounds in all); Connected, Subscribe and stop
DefaultSubscribeAttempt(a) ==
  /\ Running
  /\ UNCHANGED <<delayCfg, proc, ws>>
  /\ defaultSubs[a] > 0
  /\ IF connStatus # "Connected"
     THEN /\ defaultSubs' = [x \in 1..MaxDefaultAttempts |->
                               IF x = a THEN defaultSubs[x] - 1
                               ELSE IF x = a + 1 THEN defaultSubs[x] + 1
                               ELSE defaultSubs[x]]
          /\ UNCHANGED <<subscriptions, panicked>>
     ELSE /\ defaultSubs' = [defaultSubs EXCEPT ![a] = @ - 1]
          /\ SubscribeConnected(DefaultMethod, DefaultArgs)
  /\ UNCHANGED <<connVars, handleVars, cancelled, chanClosed, callerVars, beatVars,
                 replays, subMuDead, rxVars, hist>>

\* reapplySubscriptions: RLock, then Subscribe for every stored entry. Subscribe
\* fails at once unless the state is Connected; when it is, storeSubscription asks
\* for the write lock of the RWMutex this goroutine holds for reading and waits
\* for ever. No Send is reached either way. The loop has no other effect, so it
\* is one step.
ReplayRuns ==
  /\ Running
  /\ UNCHANGED <<delayCfg, proc, ws>>
  /\ replays > 0
  /\ ~subMuDead
  /\ IF DOMAIN subscriptions = {} \/ connStatus # "Connected"
     THEN /\ replays' = replays - 1
          /\ UNCHANGED subMuDead
     ELSE /\ replays' = 0
          /\ subMuDead' = TRUE
  /\ UNCHANGED <<connVars, handleVars, endVars, callerVars, beatVars, subscriptions,
                 defaultSubs, rxVars, hist>>

\* --------------------------------------------------- the receiver's callbacks
\* a handleDisconnected that posts the signal whatever the state and the context
HandleDisconnectedAlwaysPosts(err) ==
  /\ connStatus' = "Disconnected"
  /\ connError' = IF connStatus = "Disconnected" THEN connError ELSE err
  /\ reconnectChan' = SignalReconnect(reconnectChan)

\* handleDisconnected: nothing when already Disconnected; else state ->
\* Disconnected, the error is kept and, unless the context is cancelled, a
\* reconnect signal is posted
HandleDisconnected(err) ==
  IF connStatus = "Disconnected"
  THEN UNCHANGED <<connStatus, connError, reconnectChan>>
  ELSE /\ connStatus' = "Disconnected"
       /\ connError' = err
       /\ reconnectChan' = IF cancelled THEN reconnectChan
                           ELSE SignalReconnect(reconnectChan)

\* handleDisconnected took case <-c.ctx.Done()
SawCtxDone(h) == [h EXCEPT !.ctxDone = @ \/ (connStatus # "Disconnected" /\ cancelled)]

\* handleReconnecting
HandleReconnecting == connStatus' = "Reconnecting"

TextValue(s) == [t |-> "string", v |-> s]
\* the Data of a connection event is a map, kept opaque here
EventMessage(eventType) ==
  [Method |-> "ConnectionEvent", Data |-> [kind |-> "map", v |-> <<>>]]
ErrorMessage(text) ==
  [Method |-> "Error", Data |-> [kind |-> "single", v |-> <<TextValue(text)>>]]

SendOp(via, msg) == [op |-> "send", via |-> via, h |-> "none", msg |-> msg]

\* the transport calls the receiver only through a started, not stopped handle,
\* and one call at a time
CanCall == Running /\ LiveHandles # {} /\ rx.pending = <<>>

\* HandleConnectionEvent: the client is told first, then the event is put on
\* messagesChan (the send is the step RxStep)
HandleConnectionEvent(eventType) ==
  /\ CanCall
  /\ UNCHANGED <<delayCfg, proc, ws>>
  /\ CASE eventType = "connected" ->
            /\ HandleConnected
            /\ UNCHANGED reconnectChan
       [] eventType = "disconnected" ->
            /\ HandleDisconnected("server disconnect")
            /\ UNCHANGED <<reconnectAttempts, replays>>
       [] eventType = "reconnecting" ->
            /\ HandleReconnecting
            /\ UNCHANGED <<connError, reconnectChan, reconnectAttempts, replays>>
  /\ rx' = [call |-> "HandleConnectionEvent",
            pending |-> <<SendOp("event", EventMessage(eventType))>>, done |-> <<>>]
  /\ UNCHANGED cancelled
  /\ hist' = Settle(IF eventType = "connected" THEN [hist EXCEPT !.delay = 0]
                    ELSE IF eventType = "disconnected" THEN SawCtxDone(hist)
                    ELSE hist)
  /\ UNCHANGED <<handleVars, chanClosed, panicked, callerVars, beatVars, subscriptions,
                 subMuDead, defaultSubs, messagesChan, handlers>>

\* Method names and error texts are sequences of characters, so that
\* strings.ToLower and strings.Contains are computed.
UpperCase == <<"A", "B", "C", "D", "E", "F", "G", "H", "I", "J", "K", "L", "M",
               "N", "O", "P", "Q", "R", "S", "T", "U", "V", "W", "X", "Y", "Z">>
LowerCase == <<"a", "b", "c", "d", "e", "f", "g", "h", "i", "j", "k", "l", "m",
               "n", "o", "p", "q", "r", "s", "t", "u", "v", "w", "x", "y", "z">>
LowerChar(c) ==
  IF \E i \in 1..Len(UpperCase) : UpperCase[i] = c
  THEN LowerCase[CHOOSE i \in 1..Len(UpperCase) : UpperCase[i] = c]
  ELSE c
\* strings.ToLower
ToLower(name) == [i \in 1..Len(name) |-> LowerChar(name[i])]

\* strings.Contains
Contains(s, sub) ==
  \E i \in 0..(Len(s) - Len(sub)) : SubSeq(s, i + 1, i + Len(sub)) = sub

\* the error texts the server pushes in the model: two with an authentication
\* indicator, in upper case and in mixed case, and one without
ErrAuthUpper == <<"A", "U", "T", "H">>
ErrUnauthorized == <<"U", "n", "a", "u", "t", "h", "o", "r", "i", "z", "e", "d">>
ErrTimeout == <<"t", "i", "m", "e", "o", "u", "t">>
ErrorTexts == {ErrAuthUpper, ErrUnauthorized, ErrTimeout}

\* a test for the indicator in the text as it is spelt
IsAuthErrorCaseSensitive(text) ==
  \/ Contains(text, <<"u", "n", "a", "u", "t", "h", "o", "r", "i", "z", "e", "d">>)
  \/ Contains(text, <<"a", "u", "t", "h">>)

\* handleServerError: strings.Contains(strings.ToLower(errorMessage), "unauthorized")
\* || strings.Contains(strings.ToLower(errorMessage), "auth")
IsAuthError(text) ==
  \/ Contains(ToLower(text), <<"u", "n", "a", "u", "t", "h", "o", "r", "i", "z", "e", "d">>)
  \/ Contains(ToLower(text), <<"a", "u", "t", "h">>)

\* HandleError: the message is put on messagesChan first, then the client is told
HandleError(text) ==
  /\ CanCall
  /\ UNCHANGED <<delayCfg, proc, ws>>
  /\ rx' = [call |-> "HandleError",
            pending |-> <<SendOp("event", ErrorMessage(text)),
                          [op |-> "serverError", via |-> "event", h |-> "none",
                           msg |-> ErrorMessage(text)]>>,
            done |-> <<>>]
  /\ UNCHANGED <<connVars, handleVars, endVars, callerVars, beatVars, subVars,
                 messagesChan, handlers, hist>>

\* rx.call is the callback in progress or last returned; rx.done keeps the
\* deliveries a Receive call has made
Delivered(o) == IF o.via = "event" THEN <<>> ELSE <<[via |-> o.via, h |-> o.h, msg |-> o.msg]>>

\* a send that does not wait when the buffer is full: the oldest message is lost
RxStepOverwrites ==
  /\ Running
  /\ UNCHANGED <<delayCfg, proc, ws>>
  /\ rx.pending # <<>>
  /\ LET o == Head(rx.pending) IN
     CASE o.op = "send" ->
            IF chanClosed
            THEN /\ panicked' = "send on closed channel"
                 /\ UNCHANGED <<messagesChan, rx, connStatus, connError, reconnectChan, hist>>
            ELSE /\ messagesChan' = IF Len(messagesChan) < MessageBufferSize
                                    THEN Append(messagesChan, o.msg)
                                    ELSE Append(Tail(messagesChan), o.msg)
                 /\ rx' = [rx EXCEPT !.pending = Tail(@), !.done = @ \o Delivered(o)]
                 /\ UNCHANGED <<panicked, connStatus, connError, reconnectChan, hist>>
       [] o.op = "handler" ->
            /\ rx' = [rx EXCEPT !.pending = Tail(@), !.done = @ \o Delivered(o)]
            /\ UNCHANGED <<panicked, messagesChan, connStatus, connError, reconnectChan, hist>>
       [] o.op = "serverError" ->
            /\ IF IsAuthError(o.msg.Data.v[1].v)
               THEN HandleDisconnected("auth error")
               ELSE UNCHANGED <<connStatus, connError, reconnectChan>>
            /\ rx' = [rx EXCEPT !.pending = Tail(@)]
            /\ UNCHANGED cancelled
            /\ hist' = Settle(IF IsAuthError(o.msg.Data.v[1].v) THEN SawCtxDone(hist)
                              ELSE hist)
            /\ UNCHANGED <<panicked, messagesChan>>
  /\ UNCHANGED <<reconnectAttempts, handleVars, cancelled, chanClosed, callerVars,
                 beatVars, subVars, handlers>>

\* the next step of the callback in progress: a handler call, a send on
\* messagesChan (it waits while the buffer is full and panics when the channel
\* is closed), or handleServerError
RxStep ==
  /\ Running
  /\ UNCHANGED <<delayCfg, proc, ws>>
  /\ rx.pending # <<>>
  /\ LET o == Head(rx.pending) IN
     CASE o.op = "send" ->
            IF chanClosed
            THEN /\ panicked' = "send on closed channel"
                 /\ UNCHANGED <<messagesChan, rx, connStatus, connError, reconnectChan, hist>>
            ELSE /\ Len(messagesChan) < MessageBufferSize
                 /\ messagesChan' = Append(messagesChan, o.msg)
                 /\ rx' = [rx EXCEPT !.pending = Tail(@), !.done = @ \o Delivered(o)]
                 /\ UNCHANGED <<panicked, connStatus, connError, reconnectChan, hist>>
       [] o.op = "handler" ->
            /\ rx' = [rx EXCEPT !.pending = Tail(@), !.done = @ \o Delivered(o)]
            /\ UNCHANGED <<panicked, messagesChan, connStatus, connError, reconnectChan, hist>>
       [] o.op = "serverError" ->
            /\ IF IsAuthError(o.msg.Data.v[1].v)
               THEN HandleDisconnected("auth error")
               ELSE UNCHANGED <<connStatus, connError, reconnectChan>>
            /\ rx' = [rx EXCEPT !.pending = Tail(@)]
            /\ UNCHANGED cancelled
            /\ hist' = Settle(IF IsAuthError(o.msg.Data.v[1].v) THEN SawCtxDone(hist)
                              ELSE hist)
            /\ UNCHANGED <<panicked, messagesChan>>
  /\ UNCHANGED <<reconnectAttempts, handleVars, cancelled, chanClosed, callerVars,
                 beatVars, subVars, handlers>>

\* the application's loop "for msg := range client.Messages()"
Consume ==
  /\ Running
  /\ UNCHANGED <<delayCfg, proc, ws>>
  /\ messagesChan # <<>>
  /\ messagesChan' = Tail(messagesChan)
  /\ UNCHANGED <<connVars, handleVars, endVars, callerVars, beatVars, subVars, handlers,
                 rx, hist>>

\* ------------------------------------------- MessageReceiver: the dispatcher
NameSharePriceUpdated ==
  <<"S", "h", "a", "r", "e", "P", "r", "i", "c", "e", "U", "p", "d", "a", "t", "e", "d">>
NameMarketStatusUpdated ==
  <<"M", "a", "r", "k", "e", "t", "S", "t", "a", "t", "u", "s", "U", "p", "d", "a", "t", "e", "d",
    "^", "^", "D", "S", "E", "~">>
\* the case labels of the switch in Receive
CaseSharePrice ==
  <<"s", "h", "a", "r", "e", "p", "r", "i", "c", "e", "u", "p", "d", "a", "t", "e", "d">>
CaseMarketStatus ==
  <<"m", "a", "r", "k", "e", "t", "s", "t", "a", "t", "u", "s", "u", "p", "d", "a", "t", "e", "d",
    "^", "^", "d", "s", "e", "~">>

\* the server calls of the model: the two well-known names, a name of the
\* application and the empty name, spelt otherwise than they are looked up; argument lists without a first string and with one
CallMethods == {NameSharePriceUpdated, NameMarketStatusUpdated, <<"T", "i", "c", "k">>, <<>>}
StringArg == [t |-> "string", v |-> "payload"]
MapArg == [t |-> "map", v |-> "object"]
CallArgs == {<<>>, <<StringArg>>, <<MapArg, StringArg>>}
HandlerNames == {NameSharePriceUpdated, <<"t", "i", "c", "k">>}
HandlerIds == {"h1", "h2"}

\* a registration under the name as it is spelt
RegisterHandlerKeepsCase(methodName, handler) ==
  /\ Running
  /\ UNCHANGED <<delayCfg, proc, ws>>
  /\ handlers' = [x \in DOMAIN handlers \cup {methodName} |->
                    IF x = methodName THEN handler ELSE handlers[x]]
  /\ UNCHANGED <<connVars, handleVars, endVars, callerVars, beatVars, subVars,
                 messagesChan, rx, hist>>

\* RegisterHandler: r.handlers[strings.ToLower(methodName)] = handler
RegisterHandler(methodName, handler) ==
  /\ Running
  /\ UNCHANGED <<delayCfg, proc, ws>>
  /\ LET lowerMethod == ToLower(methodName) IN
       handlers' = [x \in DOMAIN handlers \cup {lowerMethod} |->
                      IF x = lowerMethod THEN handler ELSE handlers[x]]
  /\ UNCHANGED <<connVars, handleVars, endVars, callerVars, beatVars, subVars,
                 messagesChan, rx, hist>>

ArgsMessage(method, args) == [Method |-> method, Data |-> [kind |-> "args", v |-> args]]
SingleMessage(method, value) == [Method |-> method, Data |-> [kind |-> "single", v |-> <<value>>]]
FirstIsString(args) == Len(args) > 0 /\ args[1].t = "string"

\* a Receive whose routed cases do not return: the message goes on to the general channel
ReceivePlanFallsThrough(method, args, registry) ==
  LET normalizedMethod == ToLower(method)
      general == [op |-> "send", via |-> "catchall", h |-> "none",
                  msg |-> ArgsMessage(method, args)]
  IN
  IF normalizedMethod \in DOMAIN registry
  THEN <<[op |-> "handler", via |-> "custom", h |-> registry[normalizedMethod],
          msg |-> ArgsMessage(method, args)]>>
  ELSE IF normalizedMethod = CaseSharePrice /\ FirstIsString(args)
  THEN <<[op |-> "send", via |-> "known", h |-> "none",
          msg |-> SingleMessage(NameSharePriceUpdated, args[1])], general>>
  ELSE <<general>>

\* a Receive that routes the well-known events before it looks for a handler
ReceivePlanKnownFirst(method, args, registry) ==
  LET normalizedMethod == ToLower(method) IN
  IF normalizedMethod = CaseSharePrice /\ FirstIsString(args)
  THEN <<[op |-> "send", via |-> "known", h |-> "none",
          msg |-> SingleMessage(NameSharePriceUpdated, args[1])]>>
  ELSE IF normalizedMethod = CaseMarketStatus /\ FirstIsString(args)
  THEN <<[op |-> "send", via |-> "known", h |-> "none",
          msg |-> SingleMessage(NameMarketStatusUpdated, args[1])]>>
  ELSE IF normalizedMethod \in DOMAIN registry
  THEN <<[op |-> "handler", via |-> "custom", h |-> registry[normalizedMethod],
          msg |-> ArgsMessage(method, args)]>>
  ELSE <<[op |-> "send", via |-> "catchall", h |-> "none", msg |-> ArgsMessage(method, args)]>>

\* Receive, as the deliveries it goes through in order: the registered handler and
\* return; else SharePriceUpdated or MarketStatusUpdated__DSE_ with the first
\* argument when it is a string, and return; else the general channel
ReceivePlan(method, args, registry) ==
  LET normalizedMethod == ToLower(method) IN
  IF normalizedMethod \in DOMAIN registry
  THEN <<[op |-> "handler", via |-> "custom", h |-> registry[normalizedMethod],
          msg |-> ArgsMessage(method, args)]>>
  ELSE IF normalizedMethod = CaseSharePrice /\ FirstIsString(args)
  THEN <<[op |-> "send", via |-> "known", h |-> "none",
          msg |-> SingleMessage(NameSharePriceUpdated, args[1])]>>
  ELSE IF normalizedMethod = CaseMarketStatus /\ FirstIsString(args)
  THEN <<[op |-> "send", via |-> "known", h |-> "none",
          msg |-> SingleMessage(NameMarketStatusUpdated, args[1])]>>
  ELSE <<[op |-> "send", via |-> "catchall", h |-> "none", msg |-> ArgsMessage(method, args)]>>

\* the transport calls Receive(method, args...)
Receive(method, args) ==
  /\ CanCall
  /\ UNCHANGED <<delayCfg, proc, ws>>
  /\ rx' = [call |-> "Receive", pending |-> ReceivePlan(method, args, handlers),
            done |-> <<>>]
  /\ UNCHANGED <<connVars, handleVars, endVars, callerVars, beatVars, subVars,
                 messagesChan, handlers, hist>>

\* ---------------------------------------------- MessageProcessor: the decoder
\* A string is a text (a sequence of characters), the Brotli stream of a text, or
\* the base64 text of a string. Every plain text of the model has a character
\* outside the base64 alphabet or a length that is no multiple of 4.
Brotli(text) == [enc |-> <<"brotli">>, v |-> text]
Base64(d) == [enc |-> <<"base64">> \o d.enc, v |-> d.v]

Failed == [ok |-> FALSE, v |-> Plain(<<>>)]
Ok(x) == [ok |-> TRUE, v |-> x]

\* decompressBrotliBytes: the text of a Brotli stream, an error for other bytes
DecompressBrotliBytes(d) ==
  IF d.enc # <<>> /\ Head(d.enc) = "brotli" THEN Ok(Plain(d.v)) ELSE Failed

\* base64.StdEncoding.DecodeString
DecodeString(d) ==
  IF d.enc # <<>> /\ Head(d.enc) = "base64"
  THEN Ok([enc |-> Tail(d.enc), v |-> d.v])
  ELSE Failed

\* the characters of a string as strings.Contains and strings.Split read them;
\* the base64 alphabet has no "~"
RECURSIVE TextOf(_)
TextOf(d) ==
  IF d.enc = <<>> THEN d.v
  ELSE IF Head(d.enc) = "json"
  THEN <<"{", "\"", "d", "a", "t", "a", "\"", ":", "\"">>
         \o TextOf([enc |-> Tail(d.enc), v |-> d.v]) \o <<"\"", "}">>
  ELSE <<>>

\* strings.Join(fields, "~")
RECURSIVE JoinTilde(_)
JoinTilde(fields) ==
  IF Len(fields) = 1 THEN fields[1]
  ELSE fields[1] \o <<"~">> \o JoinTilde(Tail(fields))

\* strings.Split(text, "~")
RECURSIVE SplitTilde(_)
SplitTilde(text) ==
  IF \E i \in 1..Len(text) : text[i] = "~"
  THEN LET i == CHOOSE j \in 1..Len(text) :
                  text[j] = "~" /\ \A k \in 1..(j - 1) : text[k] # "~"
       IN <<SubSeq(text, 1, i - 1)>> \o SplitTilde(SubSeq(text, i + 1, Len(text)))
  ELSE <<text>>

\* json.Unmarshal succeeds: the texts of the model that are JSON are objects
IsJson(text) == Len(text) >= 2 /\ text[1] = "{" /\ text[Len(text)] = "}"

\* what processDecompressedData works out of the data: the fields of a text with
\* a "~", the parsed structure of a JSON text, nothing for any other text
ProcessDecompressedData(d) ==
  IF Contains(TextOf(d), <<"~">>)
  THEN [kind |-> "fields", v |-> SplitTilde(TextOf(d))]
  ELSE IF IsJson(TextOf(d))
  THEN [kind |-> "json", v |-> <<TextOf(d)>>]
  ELSE NoOutcome

\* the strings given to the processor
FieldValues == {<<>>, <<"a">>, <<"b">>}
\* a tilde-delimited sequence has two fields or more
FieldSeqs == UNION {[1..n -> FieldValues] : n \in 2..MaxFields}
JsonTexts == {<<"{", "}">>, <<"{", "k", ":", "1", "}">>}
OpaqueTexts == {<<"o", "k", "!">>, <<"x">>}
Compressed(fields) == Base64(Brotli(JoinTilde(fields)))
DecodeInputs ==
  {Compressed(f) : f \in FieldSeqs}
    \cup {Brotli(JoinTilde(f)) : f \in FieldSeqs}
    \cup {Plain(JoinTilde(f)) : f \in FieldSeqs}
    \cup {Plain(t) : t \in JsonTexts \cup OpaqueTexts}
    \cup {Base64(Plain(t)) : t \in OpaqueTexts}

\* the JSON text of an object whose "data" field is the string d
JsonData(d) == [enc |-> <<"json">> \o d.enc, v |-> d.v]

\* json.Unmarshal into a map succeeds: the string is the text of a JSON object
IsJsonObject(d) == (d.enc # <<>> /\ Head(d.enc) = "json") \/ IsJson(TextOf(d))

\* jsonObj["data"].(string)
DataField(d) ==
  IF d.enc # <<>> /\ Head(d.enc) = "json"
  THEN Ok([enc |-> Tail(d.enc), v |-> d.v])
  ELSE Failed

\* the text {"k":"a~b"}: an object without a "data" field, with a "~" in it
JsonTildeText == <<"{", "\"", "k", "\"", ":", "\"", "a", "~", "b", "\"", "}">>
NestedFields == <<(<<"a">>), <<"b">>>>
DataStrings ==
  DecodeInputs
    \cup {JsonData(d) : d \in {Compressed(NestedFields), Brotli(JoinTilde(NestedFields)),
                               Plain(JoinTilde(NestedFields)), Plain(<<"x">>)}}
    \cup {Plain(JsonTildeText)}

\* the client's variables, which the processor does not touch
ClientVars == <<connVars, handleVars, endVars, callerVars, beatVars, subVars, rxVars,
                delayCfg, hist>>

Finishes(outcome) == proc' = [proc EXCEPT !.pc = "done", !.out = outcome]

\* processDataString: the "data" field of a JSON object goes to
\* decompressAndProcess and an object without one ends the call; a string that
\* is no JSON object goes to decompressAndProcess as it is
ProcessDataString ==
  /\ proc.pc = "json"
  /\ IF IsJsonObject(proc.data)
     THEN LET dataField == DataField(proc.data) IN
            IF dataField.ok
            THEN proc' = [proc EXCEPT !.pc = "direct", !.data = dataField.v]
            ELSE Finishes(NoOutcome)
     ELSE proc' = [proc EXCEPT !.pc = "direct"]
  /\ UNCHANGED <<ClientVars, ws>>

\* decompressAndProcess, strategy 1: direct decompression
TryDirect ==
  /\ proc.pc = "direct"
  /\ LET r == DecompressBrotliBytes(proc.data) IN
       IF r.ok THEN Finishes(ProcessDecompressedData(r.v))
       ELSE proc' = [proc EXCEPT !.pc = "base64"]
  /\ UNCHANGED <<ClientVars, ws>>

\* decompressAndProcess, strategy 2: base64 decode first, then decompress
TryBase64 ==
  /\ proc.pc = "base64"
  /\ LET decoded == DecodeString(proc.data)
         r == IF decoded.ok THEN DecompressBrotliBytes(decoded.v) ELSE Failed
     IN IF r.ok THEN Finishes(ProcessDecompressedData(r.v))
        ELSE proc' = [proc EXCEPT !.pc = "plain"]
  /\ UNCHANGED <<ClientVars, ws>>

\* decompressAndProcess, strategy 3: the data as it is when it has a "~"; the
\* function ends without a result otherwise
TryPlain ==
  /\ proc.pc = "plain"
  /\ IF Contains(TextOf(proc.data), <<"~">>)
     THEN Finishes(ProcessDecompressedData(proc.data))
     ELSE Finishes(NoOutcome)
  /\ UNCHANGED <<ClientVars, ws>>

\* ------------------------------------------------- websocket.Client (dataFeed)
\* The SignalR client's variables, which the websocket client does not touch
SignalrVars == <<ClientVars, proc>>

WsRunning == ws.panicked = "no"
WsMonitorsStarted == Cardinality({i \in WsMonitorIds : ws.mons[i].pc # "none"})

\* time.Duration(float64(c.reconnectWait) * 1.5), cut at 60 s
NextReconnectWait(w) ==
  LET grown == (w * 3) \div 2 IN
  IF grown > MaxReconnectWait THEN MaxReconnectWait ELSE grown

\* Connect after the dial succeeded: c.conn = conn, c.isConnected = true, and
\* the goroutines readPump, writePump and monitorConnection are started
WsConnected(w) ==
  [w EXCEPT !.conn = "open", !.isConnected = TRUE,
            !.reading = @ + 1, !.writers = @ + 1,
            !.mons[WsMonitorsStarted + 1].pc = "wait",
            !.fails = 0,
            !.lateDial = @ \/ w.closed]

\* Connect called by the application, with c.mu held from the start to the end:
\* nil at once when connected, else the dial, which fails or succeeds. The
\* application makes no call after its Close.
WsConnect ==
  /\ WsRunning
  /\ ws.appPc = "idle"
  /\ ~ws.cancelled
  /\ ~ws.isConnected
  /\ \/ ws' = ws
     \/ /\ WsMonitorsStarted < MaxWsMonitors
        /\ ws' = WsConnected(ws)
  /\ UNCHANGED SignalrVars

\* monitorConnection: case <-c.ctx.Done(): return
WsMonitorStops(i) ==
  /\ WsRunning
  /\ ws.mons[i].pc = "wait"
  /\ ws.cancelled
  /\ ws' = [ws EXCEPT !.mons[i].pc = "exit"]
  /\ UNCHANGED SignalrVars

\* monitorConnection: case <-time.After(c.reconnectWait)
WsMonitorTimer(i) ==
  /\ WsRunning
  /\ ws.mons[i].pc = "wait"
  /\ ~ws.cancelled
  /\ ws' = [ws EXCEPT !.mons[i].pc = "check"]
  /\ UNCHANGED SignalrVars

\* monitorConnection: retries >= c.maxRetries
GivesUp(retries) == retries >= MaxRetries

\* monitorConnection: needsReconnect is read under c.mu; connected, wait again;
\* else give up and return, or count the retry and go on to Connect
WsMonitorCheck(i) ==
  /\ WsRunning
  /\ ws.mons[i].pc = "check"
  /\ IF ws.isConnected
     THEN ws' = [ws EXCEPT !.mons[i].pc = "wait"]
     ELSE IF GivesUp(ws.mons[i].retries)
     THEN ws' = [ws EXCEPT !.mons[i].pc = "exit"]
     ELSE ws' = [ws EXCEPT !.mons[i].pc = "connect", !.mons[i].retries = @ + 1]
  /\ UNCHANGED SignalrVars

\* monitorConnection: c.Connect() returns nil without a dial when another
\* goroutine has connected in between; a dial that fails lengthens
\* reconnectWait; a dial that succeeds resets retries and reconnectWait
WsMonitorConnect(i) ==
  /\ WsRunning
  /\ ws.mons[i].pc = "connect"
  /\ IF ws.isConnected
     THEN ws' = [ws EXCEPT !.mons[i] = [pc |-> "wait", retries |-> 0],
                           !.reconnectWait = InitialReconnectWait]
     ELSE \/ ws' = [ws EXCEPT !.mons[i].pc = "wait",
                              !.reconnectWait = NextReconnectWait(@),
                              !.fails = @ + 1,
                              !.lateDial = @ \/ ws.closed]
          \/ /\ WsMonitorsStarted < MaxWsMonitors
             /\ ws' = [WsConnected(ws) EXCEPT
                         !.mons[i] = [pc |-> "wait", retries |-> 0],
                         !.reconnectWait = InitialReconnectWait]
  /\ UNCHANGED SignalrVars

\* handleDisconnect
WsHandleDisconnect(w) == [w EXCEPT !.isConnected = FALSE, !.conn = "nil"]

\* readPump: c.conn.ReadMessage() returns a message
WsReadMessage ==
  /\ WsRunning
  /\ ws.reading > 0
  /\ ws.conn = "open"
  /\ ~ws.cancelled
  /\ ws' = [ws EXCEPT !.reading = @ - 1, !.processing = @ + 1]
  /\ UNCHANGED SignalrVars

\* readPump: ReadMessage returns an error (the server has gone, or Close has
\* closed the connection), or the context is cancelled: the deferred
\* handleDisconnect runs and the goroutine ends
WsReadFails ==
  /\ WsRunning
  /\ ws.reading > 0
  /\ ws' = [WsHandleDisconnect(ws) EXCEPT !.reading = @ - 1]
  /\ UNCHANGED SignalrVars

\* processMessage: select { case c.receiveChan <- message: default: }; a send on
\* the closed channel panics
WsProcessMessage ==
  /\ WsRunning
  /\ ws.processing > 0
  /\ IF ws.closed
     THEN ws' = [ws EXCEPT !.panicked = "send on closed channel"]
     ELSE ws' = [ws EXCEPT !.processing = @ - 1, !.reading = @ + 1,
                           !.receiveChan = IF @ < WsChanCap THEN @ + 1 ELSE @]
  /\ UNCHANGED SignalrVars

\* the application reads a message from Receive()
WsConsume ==
  /\ WsRunning
  /\ ws.receiveChan > 0
  /\ ws' = [ws EXCEPT !.receiveChan = @ - 1]
  /\ UNCHANGED SignalrVars

\* writePump: case <-c.ctx.Done(), or the closed sendChan: return
WsWriterStops ==
  /\ WsRunning
  /\ ws.writers > 0
  /\ ws.cancelled
  /\ ws' = [ws EXCEPT !.writers = @ - 1]
  /\ UNCHANGED SignalrVars

\* writePump: a message of sendChan or the ping of the ticker is written on
\* c.conn; c.conn is nil after handleDisconnect, and the call panics
WsWrite ==
  /\ WsRunning
  /\ ws.writers > 0
  /\ ~ws.cancelled
  /\ IF ws.conn = "nil"
     THEN ws' = [ws EXCEPT !.panicked = "nil dereference"]
     ELSE /\ ws.sendChan > 0
          /\ ws' = [ws EXCEPT !.sendChan = @ - 1]
  /\ UNCHANGED SignalrVars

\* Send: if !c.isConnected, read without c.mu; the error is returned at once
WsSendCheck ==
  /\ WsRunning
  /\ ws.appPc = "idle"
  /\ ~ws.cancelled
  /\ ws.isConnected
  /\ ws' = [ws EXCEPT !.appPc = "send"]
  /\ UNCHANGED SignalrVars

\* Send: case c.sendChan <- data, or the timeout after 5 s with the buffer
\* full; a send on the closed channel panics
WsSendPut ==
  /\ WsRunning
  /\ ws.appPc = "send"
  /\ IF ws.closed
     THEN ws' = [ws EXCEPT !.panicked = "send on closed channel"]
     ELSE ws' = [ws EXCEPT !.appPc = "idle",
                           !.sendChan = IF @ < WsChanCap THEN @ + 1 ELSE @]
  /\ UNCHANGED SignalrVars

\* Close, with c.mu held: cancel, close the connection, isConnected = false,
\* close(c.sendChan), close(c.receiveChan). It is called by a goroutine of the
\* application other than the one inside Send, and once.
WsClose ==
  /\ WsRunning
  /\ ~ws.closed
  /\ ws' = [ws EXCEPT !.cancelled = TRUE, !.conn = "nil", !.isConnected = FALSE,
                      !.closed = TRUE]
  /\ UNCHANGED SignalrVars

\* ------------------------------------------------------------ specifications
\* Each specification fixes what the environment does during the runs it covers:
\* which calls the application makes, what the server sends and which timers fire.
ConnectStep ==
  \/ \E k \in Callers : ConnectBegin(k)
  \/ \E k \in Callers : ConnectOpenFails(k)
  \/ \E k \in Callers : ConnectNewClientFails(k)
  \/ \E k \in Callers : ConnectOpens(k)
  \/ \E k \in Callers : ConnectStarted(k)

MonitorStep ==
  \/ MonitorStops
  \/ MonitorTakesSignal
  \/ AttemptReconnectCheck
  \/ BackoffElapses
  \/ BackoffCancelled
  \/ MonitorPostsRetry

HeartbeatStep ==
  \/ HeartbeatTick
  \/ HeartbeatStops
  \/ PingSucceeds
  \/ PingFails

\* connect, lose the connection (the server's "disconnected" event), reconnect, close
BaseNext ==
  \/ ConnectStep
  \/ MonitorStep
  \/ HandleConnectionEvent("disconnected")
  \/ RxStep
  \/ Consume
  \/ ReplayRuns
  \/ Close

\* Spec: the connection life cycle with every connection event of the server
Next ==
  \/ BaseNext
  \/ \E e \in {"connected", "reconnecting"} : HandleConnectionEvent(e)

Spec == Init /\ [][Next]_vars

\* HeartbeatSpec: the life cycle with the heartbeat ticker firing
HeartbeatNext == BaseNext \/ HeartbeatStep
HeartbeatSpec == Init /\ [][HeartbeatNext]_vars

\* TokenSpec: connect, lose the connection and reconnect, with the token refresh
\* calling UpdateToken; the application does not call Close in these runs
TokenNext ==
  \/ ConnectStep
  \/ MonitorTakesSignal
  \/ AttemptReconnectCheck
  \/ BackoffElapses
  \/ MonitorPostsRetry
  \/ HandleConnectionEvent("disconnected")
  \/ RxStep
  \/ Consume
  \/ ReplayRuns
  \/ \E tk \in Tokens : UpdateToken(tk)
TokenSpec == Init /\ [][TokenNext]_vars

\* BackoffSpec: connect, lose the connection and reconnect, for clients made
\* with several reconnect delays; the application does not call Close
BackoffInit == \E delays \in DelayConfigs : NewClientWith(delays)
BackoffNext ==
  \/ ConnectStep
  \/ MonitorTakesSignal
  \/ AttemptReconnectCheck
  \/ BackoffElapses
  \/ MonitorPostsRetry
  \/ HandleConnectionEvent("disconnected")
  \/ RxStep
  \/ Consume
  \/ ReplayRuns
BackoffSpec == BackoffInit /\ [][BackoffNext]_vars

\* SubscriptionSpec: the life cycle with the default subscription being stored
SubscriptionNext == BaseNext \/ \E a \in 1..MaxDefaultAttempts : DefaultSubscribeAttempt(a)
SubscriptionSpec == Init /\ [][SubscriptionNext]_vars

\* DispatchSpec: the dispatcher of a client whose first Connect has succeeded
DispatchInit ==
  /\ delayCfg = DefaultDelays
  /\ proc = NoProc
  /\ ws = NewWsClient
  /\ connStatus = "Connected"
  /\ connError = "nil"
  /\ reconnectChan = 0
  /\ reconnectAttempts = 0
  /\ token = "t1"
  /\ client = 1
  /\ handles = [h \in HandleIds |-> IF h = 1 THEN "live" ELSE "none"]
  /\ cancelled = FALSE
  /\ chanClosed = FALSE
  /\ panicked = "no"
  /\ appPc = "idle"
  /\ connectResult = "nil"
  /\ mon = [p \in MonitorPcs |-> IF p = "wait" THEN 1 ELSE 0]
  /\ heartbeats = 1
  /\ pings = 0
  /\ replays = 0
  /\ subscriptions = [x \in {} |-> <<>>]
  /\ subMuDead = FALSE
  /\ defaultSubs = [a \in 1..MaxDefaultAttempts |-> IF a = 1 THEN 1 ELSE 0]
  /\ messagesChan = <<>>
  /\ handlers = [x \in {} |-> "none"]
  /\ rx = [call |-> "none", pending |-> <<>>, done |-> <<>>]
  /\ hist = [NoHist EXCEPT !.handshake = "t1"]

DispatchNext ==
  \/ \E m \in CallMethods, a \in CallArgs : Receive(m, a)
  \/ \E n \in HandlerNames, h \in HandlerIds : RegisterHandler(n, h)
  \/ RxStep
  \/ Consume
  \/ Close
  \/ MonitorStops
  \/ HeartbeatStops

DispatchSpec == DispatchInit /\ [][DispatchNext]_vars

\* ErrorSpec: a connected client to which the server pushes errors and the
\* "reconnecting" event, while every reconnect of the monitor fails at the open;
\* the application makes no call in these runs
ErrorNext ==
  \/ \E text \in ErrorTexts : HandleError(text)
  \/ HandleConnectionEvent("reconnecting")
  \/ RxStep
  \/ Consume
  \/ MonitorTakesSignal
  \/ AttemptReconnectCheck
  \/ BackoffElapses
  \/ ConnectBegin("monitor")
  \/ ConnectOpenFails("monitor")
  \/ MonitorPostsRetry
ErrorSpec == DispatchInit /\ [][ErrorNext]_vars

\* WsSpec: a websocket.Client that the application connects, sends on, reads
\* from and closes, while the server sends messages and drops the connection
WsInit == NewClientWith(DefaultDelays)
WsNext ==
  \/ WsConnect
  \/ \E i \in WsMonitorIds : WsMonitorStops(i)
  \/ \E i \in WsMonitorIds : WsMonitorTimer(i)
  \/ \E i \in WsMonitorIds : WsMonitorCheck(i)
  \/ \E i \in WsMonitorIds : WsMonitorConnect(i)
  \/ WsReadMessage
  \/ WsReadFails
  \/ WsProcessMessage
  \/ WsConsume
  \/ WsWriterStops
  \/ WsWrite
  \/ WsSendCheck
  \/ WsSendPut
  \/ WsClose
WsSpec == WsInit /\ [][WsNext]_vars

\* CancelSpec: the runs of ErrorSpec with the server's "disconnected" event and
\* with the application calling Close, after which the loops see the cancelled
\* context
CancelNext ==
  \/ ErrorNext
  \/ HandleConnectionEvent("disconnected")
  \/ Close
  \/ MonitorStops
  \/ HeartbeatStops
  \/ BackoffCancelled
CancelSpec == DispatchInit /\ [][CancelNext]_vars

\* DecodeSpec: decompressAndProcess on each of the strings of the model
DecodeInit ==
  \E d \in DecodeInputs :
     /\ NewClientState(DefaultDelays)
     /\ proc = [pc |-> "direct", data |-> d, out |-> NoOutcome]
     /\ ws = NewWsClient
DecodeNext == TryDirect \/ TryBase64 \/ TryPlain
DecodeSpec == DecodeInit /\ [][DecodeNext]_vars

\* StrategySpec: processDataString on each of the strings of the model
StrategyInit ==
  \E d \in DataStrings :
    /\ NewClientState(DefaultDelays)
    /\ proc = [pc |-> "json", data |-> d, out |-> NoOutcome]
    /\ ws = NewWsClient
StrategyNext == ProcessDataString \/ TryDirect \/ TryBase64 \/ TryPlain
StrategySpec == StrategyInit /\ [][StrategyNext]_vars

\* SignalSpec: a connected client with all four posters of reconnect signals: the
\* server's "disconnected" event, a failing heartbeat ping, a token change and
\* the failed Connect of attemptReconnect; every reconnect fails at the open
SignalNext ==
  \/ HandleConnectionEvent("disconnected")
  \/ RxStep
  \/ Consume
  \/ HeartbeatTick
  \/ PingSucceeds
  \/ PingFails
  \/ \E tk \in Tokens : UpdateToken(tk)
  \/ MonitorTakesSignal
  \/ AttemptReconnectCheck
  \/ BackoffElapses
  \/ ConnectBegin("monitor")
  \/ ConnectOpenFails("monitor")
  \/ MonitorPostsRetry
SignalSpec == DispatchInit /\ [][SignalNext]_vars

\* RegistrySpec: the dispatcher while the application registers handlers and
\* does not call Close
RegistryMethods == {NameSharePriceUpdated, <<"T", "i", "c", "k">>}
RegistryArgs == {<<>>, <<StringArg>>}
\* the names the application registers, one of them in two spellings
RegistryNames == {NameSharePriceUpdated, <<"t", "i", "c", "k">>, <<"T", "i", "c", "k">>}
RegistryNext ==
  \/ \E m \in RegistryMethods, a \in RegistryArgs : Receive(m, a)
  \/ \E n \in RegistryNames, h \in HandlerIds : RegisterHandler(n, h)
  \/ RxStep
  \/ Consume
RegistrySpec == DispatchInit /\ [][RegistryNext]_vars

\* SubscribeSpec: a connected client whose application subscribes while the
\* server reports "reconnecting" and "connected"; the runs are shorter than the
\* heartbeat interval, and no reconnect signal is posted in them
SubscribeNext ==
  \/ \E m \in SubscribeMethods, args \in SubscribeArgs : Subscribe(m, args)
  \/ \E a \in 1..MaxDefaultAttempts : DefaultSubscribeAttempt(a)
  \/ \E e \in {"reconnecting", "connected"} : HandleConnectionEvent(e)
  \/ RxStep
  \/ Consume
  \/ ReplayRuns
SubscribeSpec == DispatchInit /\ [][SubscribeNext]_vars

\* ShutdownSpec: the runs of SubscribeSpec with the application calling Close and
\* the loops seeing the cancelled context
ShutdownNext ==
  \/ SubscribeNext
  \/ Close
  \/ MonitorStops
  \/ HeartbeatStops
ShutdownSpec == DispatchInit /\ [][ShutdownNext]_vars

TypeOK ==
  /\ connStatus \in Statuses
  /\ reconnectChan \in 0..ReconnectChanCap
  /\ reconnectAttempts \in 0..MaxReconnectAttempts
  /\ client \in {NoHandle} \cup HandleIds
  /\ Len(messagesChan) <= MessageBufferSize

\* ------------------------------------------------------------ properties
\* C1, as the specification states it: connStatus changes only along
\* Disconnected -> Connecting, Connecting -> Connected, Connected -> Reconnecting,
\* Reconnecting -> Connecting, and from any state to Disconnected in Close.
C1_FiveEdgesOnly ==
  [][connStatus' # connStatus =>
       \/ connStatus = "Disconnected" /\ connStatus' = "Connecting"
       \/ connStatus = "Connecting" /\ connStatus' = "Connected"
       \/ connStatus = "Connected" /\ connStatus' = "Reconnecting"
       \/ connStatus = "Reconnecting" /\ connStatus' = "Connecting"
       \/ connStatus' = "Disconnected" /\ Close]_vars

\* C1, as the code has it: connStatus always holds one of the four states; it
\* becomes Connecting only in Connect, from Disconnected or Reconnecting;
\* Connected only in handleConnected (a Connect that succeeds, or the server's
\* "connected" event); Reconnecting only in attemptReconnect, from any state but
\* Connected, or in handleReconnecting; Disconnected in Close, in a Connect that
\* fails, or in handleDisconnected. Connected -> Connecting never happens.
C1_Transitions ==
  /\ [](connStatus \in Statuses)
  /\ [][connStatus' # connStatus =>
          \/ /\ connStatus' = "Connecting"
             /\ connStatus \in {"Disconnected", "Reconnecting"}
             /\ \E k \in Callers : ConnectBegin(k)
          \/ /\ connStatus' = "Connected"
             /\ \/ \E k \in Callers : ConnectStarted(k)
                \/ HandleConnectionEvent("connected")
          \/ /\ connStatus' = "Reconnecting"
             /\ \/ connStatus # "Connected" /\ AttemptReconnectCheck
                \/ HandleConnectionEvent("reconnecting")
          \/ /\ connStatus' = "Disconnected"
             /\ \/ Close
                \/ \E k \in Callers : ConnectOpenFails(k) \/ ConnectNewClientFails(k)
                \/ HandleConnectionEvent("disconnected")]_vars

\* an automatic attempt has started from Disconnected, after a Connect that failed
C1_Witness ==
  /\ connStatus = "Reconnecting"
  /\ connError = "connect"
  /\ mon["backoff"] > 0
  /\ reconnectAttempts = MaxReconnectAttempts

\* C2: when the Connect called by attemptReconnect succeeds while subscriptions
\* are stored, a replay of the subscriptions is started.
C2_ReplayAfterReconnect ==
  [][(/\ ConnectStarted("monitor")
      /\ DOMAIN subscriptions # {}
      /\ ~subMuDead) => replays' = replays + 1]_vars

\* the Connect of attemptReconnect has succeeded with a subscription stored
C2_Witness ==
  /\ connStatus = "Connected"
  /\ DOMAIN subscriptions # {}
  /\ NumHandles = 2
  /\ mon["wait"] = 2
  /\ ~subMuDead

\* C3: after a heartbeat ping has failed while the client is Connected, the client
\* does not stay Connected with the failure forgotten: as long as it shows
\* Connected, the reconnect signal is still queued or a monitor is acting on it.
C3_HeartbeatFailureReconnects ==
  (/\ hist.hbFailed
   /\ connStatus = "Connected"
   /\ Running
   /\ ~cancelled) => \/ reconnectChan > 0
                     \/ \E p \in {"attempt", "backoff", "connect", "open", "started"} : mon[p] > 0

\* a ping has failed while Connected and its signal is queued
C3_Witness ==
  /\ hist.hbFailed
  /\ connStatus = "Connected"
  /\ reconnectChan > 0
  /\ pings = 0

\* C4: after UpdateToken has stopped the transport for a new token, a reconnect is
\* on its way until a handshake is made: the signal is queued, or a caller is
\* between taking it and the handshake.
C4_TokenChangeReconnects ==
  (/\ hist.tokenForced
   /\ Running
   /\ ~cancelled) => \/ reconnectChan > 0
                     \/ \E p \in {"attempt", "backoff", "connect", "open"} : mon[p] > 0
                     \/ appPc # "idle"

\* UpdateToken has stopped the only transport handle and queued the signal
C4_Witness ==
  /\ hist.tokenForced
  /\ token = "t2"
  /\ client = NoHandle
  /\ handles[1] = "stopped"
  /\ reconnectChan > 0

\* C5: an UpdateToken with the stored token, or made while the client is not
\* Connected, stops no transport, posts no reconnect signal and leaves connStatus
\* and reconnectAttempts as they are; it only replaces the stored token. The
\* handshake of a Connect uses the token stored at that time.
C5_UpdateTokenFrame ==
  [][/\ \A tk \in Tokens :
          (UpdateToken(tk) /\ (tk = token \/ connStatus # "Connected")) =>
              /\ token' = tk
              /\ UNCHANGED <<handles, client, reconnectChan, connStatus, reconnectAttempts>>
     /\ (\E k \in Callers : ConnectOpens(k)) => hist'.handshake = token]_vars

\* the token was replaced before the first Connect, whose handshake used it
C5_Witness ==
  /\ token = "t2"
  /\ hist.handshake = "t2"
  /\ NumHandles = 1
  /\ connStatus = "Connected"
  /\ ~hist.tokenForced

\* C6: Close may be called twice: messagesChan is never closed a second time.
C6_CloseTwiceIsSafe == panicked # "close of closed channel"

\* Close has been called once
C6_Witness ==
  /\ chanClosed
  /\ cancelled
  /\ connStatus = "Disconnected"
  /\ Running
  /\ handles[1] = "stopped"

\* C7: a call of Receive makes at most one delivery at any time, and when it has
\* returned it has made exactly one: to the handler registered for the method,
\* or else to the channel, by a well-known handler or by the general send.
C7_ExactlyOneDelivery ==
  rx.call = "Receive" =>
    /\ Len(rx.done) <= 1
    /\ rx.pending = <<>> => Len(rx.done) = 1
    /\ \A i \in 1..Len(rx.done) :
         /\ rx.done[i].via \in {"custom", "known", "catchall"}
         /\ rx.done[i].via = "custom" <=> rx.done[i].h \in HandlerIds

\* a Receive of "sharepriceupdated" has returned after the delivery by the
\* well-known handler, with the method registered under no handler
C7_Witness ==
  /\ rx.call = "Receive"
  /\ rx.pending = <<>>
  /\ Len(rx.done) = 1
  /\ rx.done[1].via = "known"
  /\ rx.done[1].msg.Method = NameSharePriceUpdated
  /\ messagesChan = <<rx.done[1].msg>>

\* C8: the dispatcher never waits for the consumer: a call of Receive that is at
\* its send while the buffer of messagesChan is full can take its next step.
C8_ReceiveNeverWaits ==
  (/\ rx.call = "Receive"
   /\ rx.pending # <<>>
   /\ Head(rx.pending).op = "send"
   /\ Len(messagesChan) = MessageBufferSize
   /\ Running) => ENABLED RxStep

\* a Receive has put its message into the last free place of the buffer
C8_Witness ==
  /\ rx.call = "Receive"
  /\ rx.pending = <<>>
  /\ Len(rx.done) = 1
  /\ rx.done[1].via = "catchall"
  /\ Len(messagesChan) = MessageBufferSize
  /\ messagesChan[MessageBufferSize] = rx.done[1].msg

RECURSIVE Power(_, _)
Power(b, e) == IF e = 0 THEN 1 ELSE b * Power(b, e - 1)
ExponentialDelay(base, max, n) ==
  LET d == (base * Power(3, n - 1)) \div Power(2, n - 1) IN
  IF d > max THEN max ELSE d

\* C11: the backoff of reconnect attempt n is min(maxDelay, baseDelay x 1.5^(n-1)):
\* 2 s, 3 s and 4.5 s for the attempts 1, 2 and 3 of the default delays.
C11_ExponentialBackoff ==
  [][reconnectAttempts' = reconnectAttempts + 1 =>
       hist'.delay = ExponentialDelay(delayCfg.base, delayCfg.max, reconnectAttempts')]_vars

\* the first automatic attempt of a client with the default delays is waiting
C11_Witness ==
  /\ delayCfg = DefaultDelays
  /\ reconnectAttempts = 1
  /\ mon["backoff"] > 0
  /\ hist.delay = 0

\* C12: over consecutive automatic attempts with no connection made in between,
\* the backoff never decreases and never exceeds maxReconnectDelay.
C12_BackoffMonotoneAndCapped ==
  [][reconnectAttempts' = reconnectAttempts + 1 =>
       /\ hist'.delay <= delayCfg.max
       /\ hist'.delay >= hist.delay
       /\ hist'.delay >= 0]_vars

\* the second attempt in a row waits the maximum, which its product passes
C12_Witness ==
  /\ delayCfg.max = 2500
  /\ reconnectAttempts = 2
  /\ mon["backoff"] > 0
  /\ hist.delay = 2500

\* C13: a Subscribe made while Connected that stores its subscription leaves
\* one entry for its method, holding the arguments of this call, whatever was
\* stored for the method before; the entries of the other methods are unchanged;
\* and no step of the client removes an entry.
C13_SubscribeOverwrites ==
  [][/\ \A m \in SubscribeMethods, args \in SubscribeArgs :
          (Subscribe(m, args) /\ connStatus = "Connected" /\ ~subMuDead) =>
              /\ DOMAIN subscriptions' = DOMAIN subscriptions \cup {m}
              /\ subscriptions'[m] = args
              /\ \A x \in DOMAIN subscriptions \ {m} : subscriptions'[x] = subscriptions[x]
     /\ DOMAIN subscriptions \subseteq DOMAIN subscriptions']_vars

\* the application's subscription holds the second arguments beside the default
\* subscription
C13_Witness ==
  /\ DOMAIN subscriptions = SubscribeMethods \cup {DefaultMethod}
  /\ \A m \in SubscribeMethods : subscriptions[m] = <<"b">>
  /\ subscriptions[DefaultMethod] = DefaultArgs
  /\ ~subMuDead

\* C14: a Connect called while connStatus is Connecting or Connected returns
\* nil and changes nothing: no transport handle is opened, no monitor and no
\* heartbeat loop is started, and connStatus, reconnectAttempts, the last error and
\* the client's handle are as before; the Connect of attemptReconnect posts no
\* retry after it.
C14_ConnectNoopWhenConnectingOrConnected ==
  [][\A k \in Callers :
        (ConnectBegin(k) /\ connStatus \in {"Connecting", "Connected"}) =>
            /\ connStatus' = connStatus
            /\ reconnectAttempts' = reconnectAttempts
            /\ connError' = connError
            /\ client' = client
            /\ handles' = handles
            /\ heartbeats' = heartbeats
            /\ NumMonitors' = NumMonitors
            /\ reconnectChan' = reconnectChan
            /\ k = "app" => appPc' = "idle" /\ connectResult' = "nil"
            /\ k = "monitor" => mon'["wait"] = mon["wait"] + 1 /\ mon'["failed"] = mon["failed"]]_vars

\* the application's Connect has returned nil while the Connect of
\* attemptReconnect is still opening the transport
C14_Witness ==
  /\ connStatus = "Connecting"
  /\ mon["open"] > 0
  /\ appPc = "idle"
  /\ connectResult = "nil"
  /\ client = NoHandle

\* C15: when opening the transport or creating the client fails inside Connect,
\* the same step sets connStatus = Disconnected, records the error, and ends the
\* call with the error as its result (the application reads it; attemptReconnect
\* goes on to its failure branch); the call opens no transport handle, is no longer
\* at the open, and leaves the retry count as it was.
C15_FailedConnectReturnsWithoutRetry ==
  [][\A k \in Callers :
        (ConnectOpenFails(k) \/ ConnectNewClientFails(k)) =>
            /\ connStatus' = "Disconnected"
            /\ connError' = "connect"
            /\ handles' = handles
            /\ reconnectAttempts' = reconnectAttempts
            /\ k = "app" => appPc' = "idle" /\ connectResult' = "err"
            /\ k = "monitor" => /\ mon'["open"] = mon["open"] - 1
                                /\ mon'["failed"] = mon["failed"] + 1]_vars

\* the Connect called by attemptReconnect has failed and returned its error
C15_Witness ==
  /\ mon["failed"] > 0
  /\ connStatus = "Disconnected"
  /\ connError = "connect"
  /\ reconnectAttempts > 0
  /\ NumHandles = 1

\* C16: every step that takes connStatus into Connected, from any other state,
\* leaves reconnectAttempts = 0: the first Connect, the Connect of an automatic
\* reconnect, and the server's "connected" event alike.
C16_AttemptsResetOnConnected ==
  [][(connStatus # "Connected" /\ connStatus' = "Connected") => reconnectAttempts' = 0]_vars

\* an automatic reconnect has succeeded on the second transport handle, after
\* attempts were counted
C16_Witness ==
  /\ connStatus = "Connected"
  /\ reconnectAttempts = 0
  /\ client = 2
  /\ NumMonitors = 2
  /\ connectResult = "nil"
  /\ ~cancelled

\* C17: once Close has returned, and while the application is inside no call,
\* connStatus is Disconnected.
C17_ClosedStaysDisconnected ==
  (cancelled /\ appPc = "idle") => connStatus = "Disconnected"

\* Close has returned while a monitor has taken a reconnect signal
C17_Witness ==
  /\ cancelled
  /\ appPc = "idle"
  /\ connStatus = "Disconnected"
  /\ mon["attempt"] > 0

\* C18: once Close has cancelled the context, no goroutine of the client is in a
\* wait that nothing ends: no replay goroutine waits for the write lock of
\* subscriptionsMu while holding its read lock.
C18_NoLoopBlockedAfterClose == cancelled => ~subMuDead

\* Close has been called while a replay is started and has not yet run, and the
\* monitor and the heartbeat loop have stopped
C18_Witness ==
  /\ cancelled
  /\ replays > 0
  /\ ~subMuDead
  /\ mon["exit"] = NumMonitors
  /\ heartbeats = 0

\* C19: a replay never waits for ever: reapplySubscriptions does not ask for the
\* write lock of subscriptionsMu while it holds the read lock, so the lock is
\* released and the Subscribe calls made meanwhile or later return.
C19_ReplayNeverDeadlocks == ~subMuDead

\* a replay has been started on a connected client with two subscriptions stored
C19_Witness ==
  /\ replays > 0
  /\ ~subMuDead
  /\ connStatus = "Connected"
  /\ Cardinality(DOMAIN subscriptions) = 2
  /\ ~cancelled

\* two names are equal ignoring case
EqualIgnoringCase(a, b) ==
  /\ Len(a) = Len(b)
  /\ \A i \in 1..Len(a) : LowerChar(a[i]) = LowerChar(b[i])

\* C20: RegisterHandler(n, h) leaves exactly one registration among the names
\* equal to n ignoring case, and it is h, whatever was registered under another
\* spelling before; a Receive of a method equal ignoring case to a registered name
\* plans one delivery, to the handler registered last, and that delivery is the
\* one the call then makes.
C20_RegisterHandlerFoldsAndReplaces ==
  [][/\ \A n \in RegistryNames, h \in HandlerIds :
          RegisterHandler(n, h) =>
              LET keys == {x \in DOMAIN handlers' : EqualIgnoringCase(x, n)} IN
                /\ Cardinality(keys) = 1
                /\ \A x \in keys : handlers'[x] = h
     /\ \A m \in RegistryMethods, a \in RegistryArgs :
          Receive(m, a) =>
              \A x \in DOMAIN handlers :
                 EqualIgnoringCase(x, m) =>
                     /\ Len(rx'.pending) = 1
                     /\ rx'.pending[1].op = "handler"
                     /\ rx'.pending[1].h = handlers[x]
                     /\ rx'.pending[1].msg = ArgsMessage(m, a)
                     /\ rx'.done = <<>>
     /\ (RxStep /\ rx.call = "Receive" /\ Head(rx.pending).op = "handler") =>
              /\ Len(rx'.done) = 1
              /\ rx'.done[1].h = Head(rx.pending).h
              /\ rx'.done[1].msg = Head(rx.pending).msg
              /\ rx'.pending = <<>>]_vars

\* the call "Tick" has been delivered once, to the handler h2 that is registered
\* for "tick", while h1 is registered for "sharepriceupdated"
C20_Witness ==
  /\ <<"t", "i", "c", "k">> \in DOMAIN handlers
  /\ CaseSharePrice \in DOMAIN handlers
  /\ handlers[<<"t", "i", "c", "k">>] = "h2"
  /\ handlers[CaseSharePrice] = "h1"
  /\ rx.call = "Receive"
  /\ rx.pending = <<>>
  /\ Len(rx.done) = 1
  /\ rx.done[1].h = "h2"
  /\ rx.done[1].msg.Method = <<"T", "i", "c", "k">>

\* C21: a server call with the empty method is a heartbeat acknowledgment: no
\* message with the empty method is put on messagesChan.
C21_HeartbeatNotForwarded ==
  \A i \in 1..Len(messagesChan) : messagesChan[i].Method # <<>>

\* Receive has been called with the empty method and no arguments, with no
\* handler registered, and has not yet made its delivery
C21_Witness ==
  /\ rx.call = "Receive"
  /\ rx.pending # <<>>
  /\ Head(rx.pending).msg = ArgsMessage(<<>>, <<>>)
  /\ handlers = [x \in {} |-> "none"]
  /\ messagesChan = <<>>

\* C22: when handleServerError gets an error text with "auth" or "unauthorized"
\* in it, in any case, and the state is not Disconnected, the state becomes
\* Disconnected, the error is recorded and a reconnect signal is pending; when the
\* state is Disconnected already, or the text has no indicator, the state, the
\* error and the signal channel are as before.
C22_AuthErrorForcesReconnect ==
  [][(RxStep /\ rx.pending # <<>> /\ Head(rx.pending).op = "serverError") =>
        LET text == Head(rx.pending).msg.Data.v[1].v IN
        IF text \in {ErrAuthUpper, ErrUnauthorized} /\ connStatus # "Disconnected"
        THEN /\ connStatus' = "Disconnected"
             /\ connError' = "auth error"
             /\ reconnectChan' = 1
        ELSE /\ connStatus' = connStatus
             /\ connError' = connError
             /\ reconnectChan' = reconnectChan]_vars

\* the error "AUTH" has disconnected a connected client and posted the signal
C22_Witness ==
  /\ rx.call = "HandleError"
  /\ rx.pending = <<>>
  /\ connStatus = "Disconnected"
  /\ connError = "auth error"
  /\ reconnectChan = 1
  /\ reconnectAttempts = 0
  /\ ErrorMessage(ErrAuthUpper) \in {messagesChan[i] : i \in 1..Len(messagesChan)}

\* C23: when attemptReconnect gives up because the retry budget is used up, the
\* state is Disconnected.
C23_GivesUpInDisconnected ==
  [][(/\ AttemptReconnectCheck
      /\ ~AlreadyReconnected(connStatus)
      /\ BudgetExhausted(reconnectAttempts)) => connStatus' = "Disconnected"]_vars

\* a monitor is about to find the budget used up while the attempt of another
\* monitor is waiting its backoff
C23_Witness ==
  /\ mon["attempt"] > 0
  /\ mon["backoff"] > 0
  /\ reconnectAttempts = MaxReconnectAttempts
  /\ connStatus = "Reconnecting"
  /\ ~cancelled

C25_DecoderRoundTrip ==
  proc.pc = "done" =>
    /\ \A f \in FieldSeqs :
         proc.data = Compressed(f) => proc.out = [kind |-> "fields", v |-> f]
    /\ \A t \in JsonTexts : proc.data = Plain(t) => proc.out.kind = "json"
    /\ \A t \in OpaqueTexts :
         proc.data = Plain(t) => proc.out = [kind |-> "raw", v |-> <<t>>]

\* the three fields "a", "" and "b", compressed and encoded, have been decoded
C25_Witness ==
  /\ proc.pc = "done"
  /\ proc.data = Compressed(<<(<<"a">>), <<>>, <<"b">>>>)
  /\ proc.out = [kind |-> "fields", v |-> <<(<<"a">>), <<>>, <<"b">>>>]

\* C26: reconnectChan never holds more than one signal; a poster that finds a
\* signal pending leaves the channel as it is, and it is never made to wait: with
\* the channel full, the disconnect handling, the failed ping, the token change
\* and the failed attempt can all take their step.
C26_AtMostOneSignal ==
  /\ [](reconnectChan \in 0..1)
  /\ []((Running /\ reconnectChan = 1) =>
          /\ mon["failed"] > 0 => ENABLED MonitorPostsRetry
          /\ pings > 0 => ENABLED PingFails
          /\ CanCall => ENABLED HandleConnectionEvent("disconnected")
          /\ \A tk \in Tokens : ENABLED UpdateToken(tk))
  /\ [][(/\ reconnectChan = 1
         /\ \/ MonitorPostsRetry
            \/ PingFails
            \/ HandleConnectionEvent("disconnected")
            \/ \E tk \in Tokens : UpdateToken(tk)) => reconnectChan' = 1]_vars

\* the failed Connect of attemptReconnect is about to post its retry while the
\* signal of a failed ping is pending
C26_Witness ==
  /\ mon["failed"] > 0
  /\ reconnectChan = 1
  /\ connStatus = "Disconnected"
  /\ reconnectAttempts > 0

\* C27: when attemptReconnect finds connStatus = Connected it returns to the
\* monitor loop: connStatus, reconnectAttempts, the last error, the client's
\* handle and the handles are as before, and no backoff and no Connect follows.
C27_SignalIgnoredWhenConnected ==
  [][(AttemptReconnectCheck /\ connStatus = "Connected") =>
        /\ connStatus' = "Connected"
        /\ reconnectAttempts' = reconnectAttempts
        /\ connError' = connError
        /\ client' = client
        /\ handles' = handles
        /\ mon' = Moved("attempt", "wait")]_vars

\* the signal of a failed ping has been consumed and ignored: the client is
\* Connected on its first handle, the channel is empty and the monitor waits
C27_Witness ==
  /\ hist.hbFailed
  /\ connStatus = "Connected"
  /\ reconnectChan = 0
  /\ mon["wait"] = NumMonitors
  /\ pings = 0
  /\ client = 1
  /\ reconnectAttempts = 0

\* C28: the first Connect that succeeds, on a client that has had no connection
\* yet, starts no replay of the subscriptions.
C28_FirstConnectNoReplay ==
  [][(ConnectStarted("app") /\ NumMonitors = 0) => replays' = replays]_vars

\* the first Connect has succeeded and has started no replay
C28_Witness ==
  /\ connStatus = "Connected"
  /\ connectResult = "nil"
  /\ appPc = "idle"
  /\ NumMonitors = 1
  /\ NumHandles = 1
  /\ replays = 0
  /\ ~subMuDead
  /\ reconnectAttempts = 0
  /\ rx.call = "none"

\* C29: at most one monitorConnection loop and at most one heartbeat loop are
\* running for a client.
C29_OneMonitorOneHeartbeat ==
  /\ NumMonitors - mon["exit"] <= 1
  /\ heartbeats <= 1

\* a connected client that has lost its connection: one monitor, which has
\* taken the signal, and one heartbeat loop
C29_Witness ==
  /\ NumMonitors = 1
  /\ mon["attempt"] = 1
  /\ heartbeats = 1
  /\ connStatus = "Disconnected"
  /\ ~cancelled

\* C30: with a handler registered for "sharepriceupdated", a Receive of
\* SharePriceUpdated is delivered to that handler with the method as it was sent
\* and all the arguments, and the call puts nothing on messagesChan.
C30_CustomHandlerBeforeKnownRoute ==
  [][/\ \A a \in RegistryArgs :
          (Receive(NameSharePriceUpdated, a) /\ CaseSharePrice \in DOMAIN handlers) =>
              rx'.pending = <<[op |-> "handler", via |-> "custom",
                               h |-> handlers[CaseSharePrice],
                               msg |-> ArgsMessage(NameSharePriceUpdated, a)]>>
     /\ (RxStep /\ rx.call = "Receive" /\ Head(rx.pending).via = "custom") =>
              /\ messagesChan' = messagesChan
              /\ rx'.pending = <<>>]_vars

\* SharePriceUpdated with a string argument has been delivered to the handler h1
\* and the channel is empty
C30_Witness ==
  /\ rx.call = "Receive"
  /\ rx.pending = <<>>
  /\ rx.done = <<[via |-> "custom", h |-> "h1",
                  msg |-> ArgsMessage(NameSharePriceUpdated, <<StringArg>>)]>>
  /\ messagesChan = <<>>

\* C31: the strategies are tried in the order JSON object, direct Brotli, base64
\* then Brotli, raw string with a "~"; the decoding ends at the first strategy
\* that gives a decoded string or after the last one, so a string an earlier
\* strategy gives nothing for goes on to the next strategy.
C31_StrategiesInOrderToTheLast ==
  [][/\ proc.pc = "json" =>
          \/ proc'.pc = "direct"
          \/ proc'.pc = "done" /\ DataField(proc.data).ok
     /\ proc.pc = "direct" =>
          \/ proc'.pc = "base64" /\ ~DecompressBrotliBytes(proc.data).ok
          \/ proc'.pc = "done" /\ DecompressBrotliBytes(proc.data).ok
     /\ proc.pc = "base64" =>
          \/ proc'.pc = "plain"
          \/ /\ proc'.pc = "done"
             /\ DecodeString(proc.data).ok
             /\ DecompressBrotliBytes(DecodeString(proc.data).v).ok
     /\ proc.pc = "plain" => proc'.pc = "done"]_vars

\* the object {"k":"a~b"} has no "data" field: the call has ended with nothing
\* decoded, and the "~" of the string was never looked for
C31_Witness ==
  /\ proc.pc = "done"
  /\ proc.data = Plain(JsonTildeText)
  /\ Contains(TextOf(proc.data), <<"~">>)
  /\ proc.out = NoOutcome

\* C32: whenever connStatus is Connected the transport handle c.client is not
\* nil, and neither Subscribe nor the heartbeat ever calls Send on a nil handle.
C32_ConnectedHasHandle ==
  /\ connStatus = "Connected" => client # NoHandle
  /\ panicked # "nil dereference"

\* UpdateToken has dropped the handle of a Connected client and the next
\* heartbeat tick has called Send on it
C32_Witness ==
  /\ hist.tokenForced
  /\ connStatus = "Connected"
  /\ client = NoHandle
  /\ heartbeats > 0
  /\ panicked = "nil dereference"

\* C33: at most one transport handle made by Connect is started and not stopped.
C33_AtMostOneLiveHandle == Cardinality(LiveHandles) <= 1

\* the Connect of the first reconnect attempt has started its handle and the
\* handle of the first connection, dropped without Stop, is still live
C33_Witness ==
  /\ Cardinality(LiveHandles) = 2
  /\ client \in LiveHandles
  /\ mon["open"] = 1
  /\ reconnectAttempts = 1
  /\ ~cancelled

\* C34: no callback of the receiver sends on messagesChan once Close has closed it.
C34_NoSendAfterClose ==
  /\ panicked # "send on closed channel"
  /\ (chanClosed /\ rx.pending # <<>>) => Head(rx.pending).op # "send"

\* Close came while a Receive call was about to send its message, and the send
\* on the closed channel has panicked
C34_Witness ==
  /\ chanClosed
  /\ cancelled
  /\ rx.call = "Receive"
  /\ rx.pending # <<>>
  /\ Head(rx.pending).op = "send"
  /\ panicked = "send on closed channel"

\* C35: a Subscribe made by the application while connStatus is not Connected
\* returns the error, leaves the subscription map as it was and starts no Send.
C35_SubscribeRefusedUnlessConnected ==
  [][\A m \in SubscribeMethods, args \in SubscribeArgs :
        (Subscribe(m, args) /\ connStatus # "Connected") =>
            /\ hist'.subscribe = "not connected"
            /\ subscriptions' = subscriptions
            /\ panicked' = panicked]_vars

\* the application's Subscribe has returned the error in the state Reconnecting,
\* and the map holds the default subscription only
C35_Witness ==
  /\ connStatus = "Reconnecting"
  /\ hist.subscribe = "not connected"
  /\ DOMAIN subscriptions = {DefaultMethod}
  /\ panicked = "no"

\* C36: reconnectAttempts is never below 0 and never above maxReconnectAttempts,
\* also while several monitorConnection goroutines are inside attemptReconnect.
C36_AttemptsInRange == reconnectAttempts \in 0..MaxReconnectAttempts

\* two monitors are inside attemptReconnect at once, both past the budget test,
\* and the count is at the maximum
C36_Witness ==
  /\ mon["backoff"] + mon["connect"] + mon["open"] >= 2
  /\ reconnectAttempts = MaxReconnectAttempts
  /\ ~cancelled

\* C37: a handleDisconnected that finds connStatus Disconnected changes neither
\* connStatus nor the last error and posts no signal, and one that finds the
\* context cancelled posts no signal. handleDisconnected is run by the server's
\* "disconnected" event and by a server error with an authentication indicator.
C37_HandleDisconnectedIdempotent ==
  [][LET runs == \/ HandleConnectionEvent("disconnected")
                 \/ /\ RxStep
                    /\ Head(rx.pending).op = "serverError"
                    /\ IsAuthError(Head(rx.pending).msg.Data.v[1].v)
     IN /\ (runs /\ connStatus = "Disconnected") =>
              UNCHANGED <<connStatus, connError, reconnectChan>>
        /\ (runs /\ cancelled) => reconnectChan' = reconnectChan]_vars

\* after Close, a monitor set the state to Reconnecting and the authentication
\* error of a HandleError call in progress set it back to Disconnected: the
\* error is recorded and no signal was posted
C37_Witness ==
  /\ hist.ctxDone
  /\ cancelled
  /\ connStatus = "Disconnected"
  /\ connError = "auth error"
  /\ reconnectChan = 0

\* C38: once the Close of a websocket.Client has returned, no goroutine dials
\* or sets isConnected to true, and none sends on the closed sendChan or
\* receiveChan.
C38_QuietAfterClose ==
  /\ ~ws.lateDial
  /\ ws.closed => ~ws.isConnected
  /\ ws.panicked # "send on closed channel"

\* a monitor that was past its timer when Close ran has dialled and connected
\* the closed client
C38_Witness ==
  /\ ws.closed
  /\ ws.lateDial
  /\ ws.isConnected
  /\ ws.conn = "open"
  /\ ws.reading = 1

\* C39: no more than maxRetries reconnect attempts fail in a row, however many
\* monitorConnection loops are running.
C39_RetriesSharedByMonitors == ws.fails <= MaxRetries

\* two monitors, each with its own count of retries, have made more failed
\* attempts than maxRetries since the last connect that succeeded
C39_Witness ==
  /\ WsMonitorsStarted = 2
  /\ ws.fails = MaxRetries + 1
  /\ \A i \in 1..2 : ws.mons[i].retries <= MaxRetries
  /\ ~ws.closed

====
